---- MODULE Spec2Model ----
(***************************************************************************)
(* Lead assignment and scoring engine of ThinkRealty_Assessment.           *)
(*                                                                         *)
(* The model follows app/services/lead_scoring.py (LeadScoringEngine),     *)
(* app/services/lead_assignment.py (LeadAssignmentManager) and the two     *)
(* request handlers of app/routers/lead.py (capture_lead, update_lead).    *)
(*                                                                         *)
(* Python values are encoded as follows.                                   *)
(*   Optional[T]   a sequence of length <= 1: None is <<>>, v is <<v>>.    *)
(*   dict          a function whose DOMAIN is the set of keys present.     *)
(*   str           where the code looks inside a string (substring test,   *)
(*                 set(str)) the string is a sequence of one-character     *)
(*                 strings; where it only compares for equality it is a    *)
(*                 TLA+ string.                                            *)
(*   exceptions    the result of a call is Return(v) or Raise(name).       *)
(* The agents table is read with the columns the queries select            *)
(* (agent_id, language, specialization).  A request handler runs in one    *)
(* database session: what it has not committed when it raises is rolled    *)
(* back when the session closes.  The tables lead_sources,                 *)
(* lead_conversion_history and lead_property_interests are written but     *)
(* never read by the handlers and are left out; the status trigger of the  *)
(* database is not part of the sources, so every status of the request     *)
(* schema is accepted.                                                     *)
(***************************************************************************)
EXTENDS Integers, Sequences, FiniteSets, TLC

VARIABLES
    leads,                      \* leads table: lead_id -> row
    lead_assignments,           \* lead_assignments table, rows in insertion order
    follow_up_tasks,            \* follow_up_tasks table, rows in insertion order
    lead_activities,            \* lead_activities table, rows in insertion order
    redis,                      \* duplicate-detection cache: set of keys
    agent_performance_metrics,  \* agent_performance_metrics table: set of rows
    background_active,          \* agent_id -> active assignments of leads not listed in leads
    rr_cycle,                   \* LeadAssignmentManager._rr_cycle of a long-lived manager
    last,                       \* the last call: its arguments and its result
    requests                    \* requests served concurrently, each in its own session

vars == <<leads, lead_assignments, follow_up_tasks, lead_activities, redis,
          agent_performance_metrics, background_active, rr_cycle, last, requests>>

----------------------------------------------------------------------------
(* Python values *)

None == <<>>

Some(v) == <<v>>

Get(d, k, default) == IF k \in DOMAIN d THEN d[k] ELSE default

Return(v) == [raised |-> "", value |-> v]

Raise(e) == [raised |-> e, value |-> 0]

Range(s) == {s[i] : i \in DOMAIN s}

Min(a, b) == IF a < b THEN a ELSE b

Max(a, b) == IF a > b THEN a ELSE b

\* strings the code inspects character by character
villa == <<"v","i","l","l","a">>

apartment == <<"a","p","a","r","t","m","e","n","t">>

townhouse == <<"t","o","w","n","h","o","u","s","e">>

Marina == <<"M","a","r","i","n","a">>

commercial == <<"c","o","m","m","e","r","c","i","a","l">>

----------------------------------------------------------------------------
(* LeadScoringEngine.calculate_lead_score *)

source_weights ==
    [bayut |-> 90, propertyFinder |-> 85, website |-> 80,
     dubizzle |-> 70, walk_in |-> 75, referral |-> 82]

GCC == {"KSA", "Kuwait", "Oman", "Bahrain", "Qatar"}

\* the budget thresholds taken inclusively
budget_score_inclusive(budget_max) ==
    IF budget_max >= 1500000 THEN 15
    ELSE IF budget_max >= 1000000 THEN 8
    ELSE IF budget_max <= 500000 THEN -5
    ELSE 0

budget_score(budget_max) ==
    IF budget_max > 1500000 THEN 15
    ELSE IF budget_max > 1000000 THEN 8
    ELSE IF budget_max < 500000 THEN -5
    ELSE 0

\* the source weight added without the division by 10
source_score_unscaled(source_details) ==
    LET source == Get(source_details, "source_type", None)
    IN  IF source # None /\ source[1] \in DOMAIN source_weights
        THEN source_weights[source[1]]
        ELSE 50

\* score += source_weights.get(source, 50) // 10
source_score(source_details) ==
    LET source == Get(source_details, "source_type", None)
    IN  IF source # None /\ source[1] \in DOMAIN source_weights
        THEN source_weights[source[1]] \div 10
        ELSE 50 \div 10

nationality_score(lead_data) ==
    LET nationality == Get(lead_data, "nationality", None)
    IN  IF nationality = Some("UAE") THEN 10
        ELSE IF nationality # None /\ nationality[1] \in GCC THEN 5
        ELSE 0

property_type_score(lead_data) ==
    LET property_type == Get(lead_data, "property_type", None)
    IN  IF property_type = Some(villa) THEN 5
        ELSE IF property_type = Some(apartment) THEN 3
        ELSE IF property_type = Some(commercial) THEN -3
        ELSE 0

response_time_score(source_details) ==
    LET response_time == Get(source_details, "response_time_minutes", None)
    IN  IF response_time # None
        THEN IF response_time[1] < 60 THEN 10
             ELSE IF response_time[1] < 1440 THEN 5
             ELSE 0
        ELSE 0

referral_score(source_details) ==
    IF Get(source_details, "referrer_agent_id", None) # None THEN 5 ELSE 0

\* the sum the code has accumulated in score before the clamp
raw_lead_score(lead_data, source_details) ==
    budget_score(Get(lead_data, "budget_max", Some(0))[1])
    + source_score(source_details)
    + nationality_score(lead_data)
    + property_type_score(lead_data)
    + response_time_score(source_details)
    + referral_score(source_details)

clamp_score(score) == Max(0, Min(score, 100))

calculate_lead_score(lead_data, source_details) ==
    IF Get(lead_data, "budget_max", Some(0)) = None
    THEN Raise("TypeError")      \* None > 1500000
    ELSE Return(clamp_score(raw_lead_score(lead_data, source_details)))

----------------------------------------------------------------------------
(* LeadScoringEngine.update_lead_score: the delta of one activity.         *)
(* Times are in days; utcnow() is Now.                                     *)

Now == 100

SevenDays == 7

\* the penalty also at exactly seven days
score_delta_from_seven_days(activity_data) ==
    LET activity_type    == Get(activity_data, "type", None)
        outcome          == Get(activity_data, "outcome", None)
        last_activity_at == Get(activity_data, "last_activity_at", None)
    IN  (IF outcome = Some("positive") THEN 5
         ELSE IF outcome = Some("negative") THEN -5
         ELSE 0)
        + (IF activity_type = Some("viewing") THEN 10 ELSE 0)
        + (IF activity_type = Some("offer_made") THEN 20 ELSE 0)
        + (IF last_activity_at # None /\ last_activity_at[1] <= Now - SevenDays
           THEN -10 ELSE 0)

score_delta(activity_data) ==
    LET activity_type    == Get(activity_data, "type", None)
        outcome          == Get(activity_data, "outcome", None)
        last_activity_at == Get(activity_data, "last_activity_at", None)
    IN  (IF outcome = Some("positive") THEN 5
         ELSE IF outcome = Some("negative") THEN -5
         ELSE 0)
        + (IF activity_type = Some("viewing") THEN 10 ELSE 0)
        + (IF activity_type = Some("offer_made") THEN 20 ELSE 0)
        + (IF last_activity_at # None /\ last_activity_at[1] < Now - SevenDays
           THEN -10 ELSE 0)

\* the score written without the lower clamp
new_lead_score_no_floor(current, activity_data) ==
    Min(100, current + score_delta(activity_data))

\* new_score = max(0, min(100, current + score_delta))
new_lead_score(current, activity_data) ==
    Max(0, Min(100, current + score_delta(activity_data)))

\* the current score taken as 0 whatever the row holds
current_score_zero(lds, lead_id) == 0

\* res.scalar_one_or_none() or 0
current_score(lds, lead_id) ==
    IF lead_id \in DOMAIN lds THEN lds[lead_id].lead_score ELSE 0

\* the UPDATE that writes no score
set_lead_score_nothing(lds, lead_id, score) == lds

\* UPDATE leads SET lead_score = ... WHERE lead_id = ...
set_lead_score(lds, lead_id, score) ==
    [l \in DOMAIN lds |->
        IF l = lead_id THEN [lds[l] EXCEPT !.lead_score = score] ELSE lds[l]]

----------------------------------------------------------------------------
(* The agents table and the queries of LeadAssignmentManager *)

\* the rows of the agents table, in the order the table returns them (the
\* queries have no ORDER BY and no handler writes to the table)
agents ==
    << [agent_id |-> "a1", language |-> Some("english"), specialization |-> Some(villa)],
       [agent_id |-> "a2", language |-> Some("arabic"),
        specialization |-> Some(villa \o <<",">> \o Marina)],
       [agent_id |-> "a3", language |-> Some("arabic"), specialization |-> None] >>

AgentIds == {agents[i].agent_id : i \in DOMAIN agents}

agent_row(agent_id) == agents[CHOOSE i \in DOMAIN agents : agents[i].agent_id = agent_id]

WorkloadLimit == 50

TerminalStatuses == {"converted", "lost"}

\* the count without the condition on the lead's status
get_agent_workload_any_status(asg, lds, bg, agent_id) ==
    bg[agent_id]
    + Cardinality({i \in DOMAIN asg :
                      /\ asg[i].agent_id = agent_id
                      /\ asg[i].reassigned = FALSE})

\* count of assignments of the agent that are not reassigned and whose lead
\* is not converted or lost
get_agent_workload(asg, lds, bg, agent_id) ==
    bg[agent_id]
    + Cardinality({i \in DOMAIN asg :
                      /\ asg[i].agent_id = agent_id
                      /\ asg[i].reassigned = FALSE
                      /\ lds[asg[i].lead_id].status \notin TerminalStatuses})

\* the scalar subquery of assign_lead and find_best_agent, correlated on
\* Agent.agent_id: the same count, written a second and a third time
workload_subq(asg, lds, bg, agent_id) ==
    bg[agent_id]
    + Cardinality({i \in DOMAIN asg :
                      /\ asg[i].agent_id = agent_id
                      /\ asg[i].reassigned = FALSE
                      /\ lds[asg[i].lead_id].status \notin TerminalStatuses})

\* func.coalesce(latest_performance_subq, 1), in hundredths
latest_conversion_rate(metrics, agent_id) ==
    LET mine == {m \in metrics : m.agent_id = agent_id}
    IN  IF mine = {} THEN 100
        ELSE LET latest == CHOOSE m \in mine : \A o \in mine : o.date <= m.date
             IN  IF latest.conversion_rate = None THEN 100
                 ELSE latest.conversion_rate[1]

\* int(x) of a number given in hundredths: truncation towards zero
py_int(hundredths) ==
    IF hundredths >= 0 THEN hundredths \div 100 ELSE -((-hundredths) \div 100)

agent_weight(metrics, agent_id) == Max(1, py_int(latest_conversion_rate(metrics, agent_id)))

\* the query with workload <= 50
agents_up_to_limit(asg, lds, bg) ==
    LET under(a) == workload_subq(asg, lds, bg, a.agent_id) <= WorkloadLimit
        rows     == SelectSeq(agents, under)
    IN  [i \in DOMAIN rows |-> rows[i].agent_id]

\* SELECT agent_id, ... FROM agents WHERE workload < 50: the agent ids of the
\* rows under the limit, in table order
agents_under_limit(asg, lds, bg) ==
    LET under(a) == workload_subq(asg, lds, bg, a.agent_id) < WorkloadLimit
        rows     == SelectSeq(agents, under)
    IN  [i \in DOMAIN rows |-> rows[i].agent_id]

----------------------------------------------------------------------------
(* LeadAssignmentManager.find_best_agent: filters, weighted pool, cycle *)

\* property_type in a["specialization"] on Python strings
IsSubstring(p, s) ==
    \E i \in 0..(Len(s) - Len(p)) : SubSeq(s, i + 1, i + Len(p)) = p

\* set(str): the one-character strings of s
CharSet(s) == {<<s[i]>> : i \in DOMAIN s}

Truthy(opt) == opt # None /\ opt[1] # <<>>

matches_property_type(agent_id, property_type) ==
    LET a == agent_row(agent_id)
    IN  Truthy(a.specialization) /\ IsSubstring(property_type, a.specialization[1])

matches_preferred_areas(agent_id, preferred_areas) ==
    LET a == agent_row(agent_id)
    IN  Truthy(a.specialization)
        /\ Range(preferred_areas) \cap CharSet(a.specialization[1]) # {}

matches_language(agent_id, preferred_lang) ==
    agent_row(agent_id).language = Some(preferred_lang)

\* the filtered list kept even when it is empty
OrNothing(filtered, fallback) == filtered

\* [...] or agents
OrElse(filtered, fallback) == IF filtered # <<>> THEN filtered ELSE fallback

filter_property_type(pool, lead_data) ==
    LET property_type == Get(lead_data, "property_type", None)
        keep(agent_id) == matches_property_type(agent_id, property_type[1])
    IN  IF Truthy(property_type) THEN OrElse(SelectSeq(pool, keep), pool) ELSE pool

filter_preferred_areas(pool, lead_data) ==
    LET preferred_areas == Get(lead_data, "preferred_areas", Some(<<>>))
        keep(agent_id) == matches_preferred_areas(agent_id, preferred_areas[1])
    IN  IF Truthy(preferred_areas) THEN OrElse(SelectSeq(pool, keep), pool) ELSE pool

filter_language(pool, lead_data) ==
    LET preferred_lang == Get(lead_data, "language_preference", None)
        keep(agent_id) == matches_language(agent_id, preferred_lang[1])
        matching_agents == SelectSeq(pool, keep)
    IN  IF preferred_lang # None /\ preferred_lang[1] # ""
        THEN (IF matching_agents # <<>> THEN matching_agents ELSE pool)
        ELSE pool

eligible_agents(pool, lead_data) ==
    filter_language(filter_preferred_areas(filter_property_type(pool, lead_data), lead_data),
                    lead_data)

RECURSIVE build_weighted_pool(_, _)
build_weighted_pool(pool, metrics) ==
    IF pool = <<>> THEN <<>>
    ELSE [i \in 1..agent_weight(metrics, Head(pool)) |-> Head(pool)]
         \o build_weighted_pool(Tail(pool), metrics)

\* the cycle built anew by every call
use_cycle_rebuilt(cycle, weighted_pool) == [pool |-> weighted_pool, pos |-> 1]

\* if not self._rr_cycle or not weighted_pool: an itertools.cycle object is
\* always true, so the cycle is built only while _rr_cycle is None
use_cycle(cycle, weighted_pool) ==
    IF cycle = None \/ weighted_pool = <<>>
    THEN [pool |-> weighted_pool, pos |-> 1]
    ELSE cycle[1]

\* next(self._rr_cycle)
cycle_next(c) == [c EXCEPT !.pos = (c.pos % Len(c.pool)) + 1]

\* the active-lead count the workload subquery gives each agent
workloads(asg, lds, bg) == [a \in AgentIds |-> workload_subq(asg, lds, bg, a)]

\* result: the chosen agent_id or None; cycle: _rr_cycle after the call;
\* eligible: the list the weighted pool was built from; loads and lead_data:
\* what the call read
find_best_agent(asg, lds, bg, metrics, lead_data, cycle) ==
    LET pool     == agents_under_limit(asg, lds, bg)
        eligible == eligible_agents(pool, lead_data)
        weighted_pool == build_weighted_pool(eligible, metrics)
        c        == use_cycle(cycle, weighted_pool)
        read     == [loads |-> workloads(asg, lds, bg), lead_data |-> lead_data]
    IN  IF pool = <<>> \/ eligible = <<>>    \* both tests "if not agents"
        THEN [result |-> None, cycle |-> cycle, eligible |-> <<>>] @@ read
        ELSE [result |-> Some(c.pool[c.pos]), cycle |-> Some(cycle_next(c)),
              eligible |-> eligible] @@ read

\* assign_lead without the test for an empty list of agents under the limit
assign_lead_first_agent(asg, lds, bg, metrics, lead_data, cycle) ==
    [result |-> Some(agents[1].agent_id), cycle |-> cycle, eligible |-> <<>>,
     loads |-> workloads(asg, lds, bg), lead_data |-> lead_data]

\* LeadAssignmentManager.assign_lead: its own filtered list is not used, the
\* choice is the one find_best_agent makes
assign_lead(asg, lds, bg, metrics, lead_data, cycle) ==
    IF agents_under_limit(asg, lds, bg) = <<>>
    THEN [result |-> None, cycle |-> cycle, eligible |-> <<>>,
          loads |-> workloads(asg, lds, bg), lead_data |-> lead_data]
    ELSE find_best_agent(asg, lds, bg, metrics, lead_data, cycle)

----------------------------------------------------------------------------
(* Bounds *)

MaxLeads == 2

MaxAssignments == 3

MaxActivities == 2

MaxCalls == 40

----------------------------------------------------------------------------
(* LeadAssignmentManager.reassign_lead, on the tables of its session.      *)
(* A manager is created for the request, so its _rr_cycle starts as None.  *)

\* the UPDATE that marks no row
supersede_no_row(asg, lead_id) == asg

supersede(asg, lead_id) ==
    [i \in DOMAIN asg |->
        IF asg[i].lead_id = lead_id /\ asg[i].reassigned = FALSE
        THEN [asg[i] EXCEPT !.reassigned = TRUE]
        ELSE asg[i]]

\* the times stored in the assignment rows
times(asg) == {0} \cup {asg[i].assigned_at : i \in DOMAIN asg}
               \cup {asg[i].created_at : i \in DOMAIN asg}

\* datetime.utcnow(): the present is later than every time already stored;
\* only the order of the times is kept
utcnow(asg) == 1 + (CHOOSE t \in times(asg) : \A u \in times(asg) : u <= t)

\* the new row inserted as already superseded
new_assignment_superseded(lead_id, agent_id, reason, now) ==
    [lead_id |-> lead_id, agent_id |-> agent_id, reason |-> reason, reassigned |-> TRUE,
     assigned_at |-> now, created_at |-> now]

\* LeadAssignment(lead_id, agent_id, reason, reassigned = False), with
\* assigned_at and created_at taken from the clock
new_assignment(lead_id, agent_id, reason, now) ==
    [lead_id |-> lead_id, agent_id |-> agent_id, reason |-> reason, reassigned |-> FALSE,
     assigned_at |-> now, created_at |-> now]

\* the SELECT of another agent's row
select_any_agent(target_agent_id) == Some(agents[1].agent_id)

\* SELECT agent_id, ... FROM agents WHERE agent_id = :target_agent_id,
\* result.mappings().first()
select_target_agent(target_agent_id) ==
    IF target_agent_id \in AgentIds THEN Some(target_agent_id) ELSE None

\* what an automatic selection read and chose
selection_of(info) ==
    Some([loads |-> info.loads, lead_data |-> info.lead_data,
          eligible |-> info.eligible, result |-> info.result])

\* result: Return(agent_id) and the tables to commit, or Raise and nothing;
\* selection: the automatic selection the call made, if it made one
reassign_lead(asg, lds, bg, metrics, lead_id, reason, target_agent_id) ==
    LET asg1 == supersede(asg, lead_id)
        auto == assign_lead(asg1, lds, bg, metrics, <<>>, None)
        new_agent == select_target_agent(target_agent_id[1])
    IN  IF target_agent_id # None
        THEN IF new_agent # None
             THEN [result |-> Return(new_agent[1]),
                   lead_assignments |->
                       Append(asg1, new_assignment(lead_id, new_agent[1], reason, utcnow(asg1))),
                   selection |-> None]
             ELSE [result |-> Raise("ValueError"), lead_assignments |-> asg,
                   selection |-> None]
        ELSE IF auto.result # None
             THEN [result |-> Return(auto.result[1]),
                   lead_assignments |->
                       Append(asg1, new_assignment(lead_id, auto.result[1], reason, utcnow(asg1))),
                   selection |-> selection_of(auto)]
             ELSE [result |-> Raise("ValueError"), lead_assignments |-> asg,
                   selection |-> selection_of(auto)]

----------------------------------------------------------------------------
(* POST /api/v1/leads/capture *)

cache_keys(lead_data) ==
    {<<"lead:phone", lead_data.phone>>}
    \cup (IF lead_data.email # None THEN {<<"lead:email", lead_data.email[1]>>} ELSE {})

duplicate_in_db(lds, lead_data) ==
    \E l \in DOMAIN lds :
        \/ lds[l].phone = lead_data.phone
        \/ (lds[l].email # None /\ lds[l].email = lead_data.email)

scoring_source_details(request) ==
    [source_type |-> Some(request.source_type),
     referrer_agent_id |-> request.referrer_agent_id]

\* the lead inserted without the computed score
new_lead_unscored(lead_data, lead_score) ==
    [k \in DOMAIN lead_data \cup {"status", "lead_score"} |->
        IF k = "status" THEN "new"
        ELSE IF k = "lead_score" THEN 0
        ELSE lead_data[k]]

\* Lead(**request.lead_data.dict(), status="new"), new_lead.lead_score = lead_score
new_lead(lead_data, lead_score) ==
    [k \in DOMAIN lead_data \cup {"status", "lead_score"} |->
        IF k = "status" THEN "new"
        ELSE IF k = "lead_score" THEN lead_score
        ELSE lead_data[k]]

capture_lead(request, max_leads) ==
    LET lead_data == request.lead_data
        lead_id   == Cardinality(DOMAIN leads) + 1
        score     == calculate_lead_score(lead_data, scoring_source_details(request))
        leads1    == [l \in DOMAIN leads \cup {lead_id} |->
                        IF l = lead_id THEN new_lead(lead_data, score.value) ELSE leads[l]]
        fail(e, selection) ==
                     /\ last' = [op |-> "capture_lead", lead_id |-> lead_id,
                                 result |-> Raise(e), selection |-> selection,
                                 previous |-> None]
                     /\ UNCHANGED <<leads, lead_assignments, follow_up_tasks,
                                    lead_activities, redis>>
        \* the selection of the capture just before this one
        previous  == IF last.op = "capture_lead" /\ last.result.raised = ""
                     THEN last.selection ELSE None
    IN  /\ Cardinality(DOMAIN leads) < max_leads
        /\ IF cache_keys(lead_data) \cap redis # {}
           THEN fail("400 Duplicate lead detected (cache)", None)
           ELSE IF duplicate_in_db(leads, lead_data)
           THEN fail("400 Duplicate lead detected (DB)", None)
           ELSE IF score.raised # ""
           THEN fail(score.raised, None)
           ELSE LET agent_info == assign_lead(lead_assignments, leads1, background_active,
                                              agent_performance_metrics, lead_data, None)
                IN  IF agent_info.result = None
                    THEN fail("400 No suitable agent available", selection_of(agent_info))
                    ELSE /\ leads' = leads1
                         /\ lead_assignments' =
                                Append(lead_assignments,
                                       new_assignment(lead_id, agent_info.result[1],
                                                      "initial assignment",
                                                      utcnow(lead_assignments)))
                         /\ follow_up_tasks' =
                                Append(follow_up_tasks,
                                       [lead_id |-> lead_id,
                                        agent_id |-> agent_info.result[1],
                                        task_type |-> "call"])
                         /\ redis' = redis \cup cache_keys(lead_data)
                         /\ last' = [op |-> "capture_lead", lead_id |-> lead_id,
                                     result |-> Return(agent_info.result[1]),
                                     selection |-> selection_of(agent_info),
                                     previous |-> previous]
                         /\ UNCHANGED lead_activities
        /\ UNCHANGED <<agent_performance_metrics, background_active, rr_cycle, requests>>

----------------------------------------------------------------------------
(* PUT /api/v1/leads/{lead_id}/update *)

FollowUpTaskTypes == {"call", "email", "whatsapp", "viewing", "meeting"}

\* SELECT agent_id FROM lead_assignments WHERE lead_id = :lead_id
\*   AND reassigned = FALSE LIMIT 1
active_agent(asg, lead_id) ==
    LET active == SelectSeq(asg, LAMBDA r : r.lead_id = lead_id /\ r.reassigned = FALSE)
    IN  IF active = <<>> THEN None ELSE Some(Head(active).agent_id)

set_status(lds, lead_id, status) ==
    [l \in DOMAIN lds |->
        IF l = lead_id THEN [lds[l] EXCEPT !.status = status] ELSE lds[l]]

HighPotentialScore == 90

\* the threshold taken inclusively
is_high_potential_from_90(new_score) == new_score >= HighPotentialScore

\* if new_score > 90
is_high_potential(new_score) == new_score > HighPotentialScore

update_lead(lead_id, request) ==
    LET lead       == leads[lead_id]
        changed    == request.status # None /\ request.status[1] # lead.status
        leads1     == IF changed THEN set_status(leads, lead_id, request.status[1]) ELSE leads
        agent      == active_agent(lead_assignments, lead_id)
        act        == request.activity[1]
        activities1 ==
            IF request.activity # None
            THEN Append(lead_activities,
                        [lead_id |-> lead_id, agent_id |-> agent[1],
                         activity_type |-> act.type[1], outcome |-> act.outcome])
            ELSE lead_activities
        tasks1 ==
            IF request.activity # None /\ act.next_follow_up # None
            THEN Append(follow_up_tasks,
                        [lead_id |-> lead_id, agent_id |-> agent[1],
                         task_type |-> act.type[1]])
            ELSE follow_up_tasks
        activity_data == IF request.activity # None THEN act ELSE <<>>
        \* update_lead_score commits what the request has written so far
        new_score  == new_lead_score(current_score(leads1, lead_id), activity_data)
        leads2     == set_lead_score(leads1, lead_id, new_score)
        fail(e)    == /\ last' = [op |-> "update_lead", lead_id |-> lead_id,
                                  result |-> Raise(e), selection |-> None]
                      /\ UNCHANGED <<leads, lead_assignments, follow_up_tasks,
                                     lead_activities>>
    IN  /\ lead_id \in DOMAIN leads
        /\ IF request.activity # None /\ agent = None
           THEN fail("IntegrityError")    \* lead_activities.agent_id is NOT NULL
           ELSE IF /\ request.activity # None
                   /\ act.next_follow_up # None
                   /\ act.type[1] \notin FollowUpTaskTypes
           THEN fail("IntegrityError")    \* chk_task_type
           ELSE /\ Len(activities1) <= MaxActivities
                /\ leads' = leads2
                /\ lead_activities' = activities1
                /\ follow_up_tasks' = tasks1
                /\ IF is_high_potential(new_score)
                   THEN LET r == reassign_lead(lead_assignments, leads2, background_active,
                                               agent_performance_metrics, lead_id,
                                               "High potential lead (score > 90)", None)
                        IN  /\ Len(r.lead_assignments) <= MaxAssignments
                            /\ lead_assignments' = r.lead_assignments
                            /\ last' = [op |-> "update_lead", lead_id |-> lead_id,
                                        result |-> IF r.result.raised # ""
                                                   THEN r.result
                                                   ELSE Return(new_score),
                                        selection |-> r.selection]
                   ELSE /\ lead_assignments' = lead_assignments
                        /\ last' = [op |-> "update_lead", lead_id |-> lead_id,
                                    result |-> Return(new_score), selection |-> None]
        /\ UNCHANGED <<redis, agent_performance_metrics, background_active, rr_cycle, requests>>

----------------------------------------------------------------------------
(* Direct calls of the two services *)

\* LeadScoringEngine.update_lead_score(db, lead_id, activity_data)
update_lead_score(lead_id, activity_data) ==
    LET current   == current_score(leads, lead_id)
        new_score == new_lead_score(current, activity_data)
    IN  /\ lead_id \in DOMAIN leads
        /\ leads' = set_lead_score(leads, lead_id, new_score)
        /\ last' = [op |-> "update_lead_score", lead_id |-> lead_id,
                    activity_data |-> activity_data, current |-> current,
                    result |-> Return(new_score)]
        /\ UNCHANGED <<lead_assignments, follow_up_tasks, lead_activities, redis,
                       agent_performance_metrics, background_active, rr_cycle, requests>>

\* LeadAssignmentManager(db).reassign_lead(lead_id, reason, target_agent_id)
\* in a session of its own
reassign_lead_call(lead_id, target_agent_id) ==
    /\ lead_id \in DOMAIN leads
    /\ LET r == reassign_lead(lead_assignments, leads, background_active,
                              agent_performance_metrics, lead_id, "manual",
                              target_agent_id)
       IN  /\ Len(r.lead_assignments) <= MaxAssignments
           /\ lead_assignments' = r.lead_assignments
           /\ last' = [op |-> "reassign_lead", lead_id |-> lead_id,
                       target_agent_id |-> target_agent_id, result |-> r.result,
                       selection |-> r.selection]
    /\ UNCHANGED <<leads, follow_up_tasks, lead_activities, redis,
                   agent_performance_metrics, background_active, rr_cycle, requests>>

----------------------------------------------------------------------------
(* Requests of the sequential specification *)

LeadDatas ==
    { [phone |-> "p1", email |-> Some("e1"),
       nationality |-> Some("UAE"), language_preference |-> Some("english"),
       budget_max |-> Some(2000000), property_type |-> Some(villa),
       preferred_areas |-> None],
      [phone |-> "p3", email |-> Some("e1"),
       nationality |-> Some("Qatar"), language_preference |-> None,
       budget_max |-> Some(1200000), property_type |-> None,
       preferred_areas |-> Some(<<>>)],
      [phone |-> "p2", email |-> None,
       nationality |-> None, language_preference |-> Some("arabic"),
       budget_max |-> Some(400000), property_type |-> Some(townhouse),
       preferred_areas |-> Some(<<Marina>>)],
      [phone |-> "p1", email |-> None,
       nationality |-> Some("India"), language_preference |-> Some("english"),
       budget_max |-> None, property_type |-> Some(apartment),
       preferred_areas |-> None] }

CaptureRequests ==
    [source_type : {"bayut"}, lead_data : LeadDatas, referrer_agent_id : {Some("a1")}]

Activities ==
    { [type |-> Some("offer_made"), outcome |-> Some("positive"), next_follow_up |-> None],
      [type |-> Some("call"), outcome |-> Some("negative"), next_follow_up |-> Some(Now + 1)],
      [type |-> Some("offer_made"), outcome |-> None, next_follow_up |-> Some(Now + 1)] }

UpdateRequests ==
    [status : {None, Some("new"), Some("converted")},
     activity : {None} \cup {Some(a) : a \in Activities}]

Targets == {Some("a3"), Some("a0")}

BackgroundLoads == {48, 50}

Metrics0 ==
    { [agent_id |-> "a1", date |-> 1, conversion_rate |-> Some(250)],
      [agent_id |-> "a1", date |-> 2, conversion_rate |-> Some(100)],
      [agent_id |-> "a2", date |-> 1, conversion_rate |-> Some(35)] }

seeded_lead(lead_score) ==
    [phone |-> "p0", email |-> None, nationality |-> None,
     language_preference |-> Some("arabic"), budget_max |-> Some(600000),
     property_type |-> None, preferred_areas |-> None,
     status |-> "new", lead_score |-> lead_score]

\* an empty database, or one lead already captured for agent a1 whose score
\* earlier activities have raised to 85
Init ==
    /\ background_active \in [AgentIds -> BackgroundLoads]
    /\ \/ /\ leads = <<>>
          /\ lead_assignments = <<>>
          /\ follow_up_tasks = <<>>
       \/ /\ leads = <<seeded_lead(85)>>
          /\ lead_assignments = <<new_assignment(1, "a1", "initial assignment", utcnow(<<>>))>>
          /\ follow_up_tasks = <<[lead_id |-> 1, agent_id |-> "a1", task_type |-> "call"]>>
          /\ background_active["a1"] < WorkloadLimit
    /\ lead_activities = <<>>
    /\ redis = {}
    /\ agent_performance_metrics = Metrics0
    /\ rr_cycle = None
    /\ requests = <<>>
    /\ last = [op |-> "init"]

CaptureLead == \E request \in CaptureRequests : capture_lead(request, MaxLeads)

UpdateLead == \E lead_id \in DOMAIN leads, request \in UpdateRequests :
                  update_lead(lead_id, request)

ReassignLead == \E lead_id \in DOMAIN leads, target \in Targets :
                    reassign_lead_call(lead_id, target)

Next == CaptureLead \/ UpdateLead \/ ReassignLead

Spec == Init /\ [][Next]_vars

----------------------------------------------------------------------------
(* Scores: one lead whose score is any value of the column's range, the    *)
(* two handlers, and update_lead_score called with any activity data       *)

ActivityTypeArgs == {Some("call"), Some("viewing"), Some("offer_made")}

OutcomeArgs == {None, Some("positive"), Some("negative"), Some("neutral")}

LastActivityArgs == {None, Some(Now - SevenDays - 1), Some(Now - SevenDays)}

\* dicts with any subset of the keys type, outcome, last_activity_at
ActivityDatas ==
    {<<>>}
    \cup {[type |-> t] : t \in ActivityTypeArgs}
    \cup {[outcome |-> o] : o \in OutcomeArgs}
    \cup {[last_activity_at |-> at] : at \in LastActivityArgs}
    \cup {[type |-> t, outcome |-> o] : t \in ActivityTypeArgs, o \in OutcomeArgs}
    \cup {[type |-> t, last_activity_at |-> at] :
             t \in ActivityTypeArgs, at \in LastActivityArgs}
    \cup {[outcome |-> o, last_activity_at |-> at] :
             o \in OutcomeArgs, at \in LastActivityArgs}
    \cup {[type |-> t, outcome |-> o, last_activity_at |-> at] :
             t \in ActivityTypeArgs, o \in OutcomeArgs, at \in LastActivityArgs}

InitScores ==
    /\ \/ /\ leads = <<>>
          /\ lead_assignments = <<>>
          /\ follow_up_tasks = <<>>
       \/ /\ \E lead_score \in 0..100 : leads = <<seeded_lead(lead_score)>>
          /\ lead_assignments = <<new_assignment(1, "a1", "initial assignment", utcnow(<<>>))>>
          /\ follow_up_tasks = <<[lead_id |-> 1, agent_id |-> "a1", task_type |-> "call"]>>
    /\ lead_activities = <<>>
    /\ redis = {}
    /\ agent_performance_metrics = Metrics0
    /\ background_active = [a \in AgentIds |-> 48]
    /\ rr_cycle = None
    /\ requests = <<>>
    /\ last = [op |-> "init"]

CaptureFirstLead == \E request \in CaptureRequests : capture_lead(request, 1)

\* what the handler cannot pass: activity data with a last-activity timestamp
StaleActivityDatas ==
    { [last_activity_at |-> Some(Now - SevenDays - 1)],
      [outcome |-> Some("negative"), last_activity_at |-> Some(Now - SevenDays - 1)],
      [type |-> Some("offer_made"), outcome |-> Some("positive"),
       last_activity_at |-> Some(Now - SevenDays)] }

UpdateStaleLeadScore == \E lead_id \in DOMAIN leads, activity_data \in StaleActivityDatas :
                            update_lead_score(lead_id, activity_data)

NextScores == CaptureFirstLead \/ UpdateLead \/ UpdateStaleLeadScore

SpecScores == InitScores /\ [][NextScores]_vars

(* update_lead_score alone, on every score and every activity data *)

InitUpdateScore == InitScores /\ leads # <<>>

UpdateLeadScore == \E lead_id \in DOMAIN leads, activity_data \in ActivityDatas :
                       update_lead_score(lead_id, activity_data)

SpecUpdateScore == InitUpdateScore /\ [][UpdateLeadScore]_vars

----------------------------------------------------------------------------
(* calculate_lead_score alone, on dicts with any subset of the keys it reads *)

Restrict(d, keys) == [k \in keys |-> d[k]]

BudgetArgs ==
    {None, Some(0), Some(499999), Some(500000), Some(1000000), Some(1000001),
     Some(1500000), Some(1500001), Some(2000000)}

NationalityArgs == {None, Some("UAE"), Some("Qatar"), Some("India")}

PropertyTypeArgs == {None, Some(villa), Some(apartment), Some(commercial), Some(townhouse)}

SourceTypeArgs ==
    {None, Some("bayut"), Some("propertyFinder"), Some("website"), Some("dubizzle"),
     Some("walk_in"), Some("referral"), Some("facebook")}

ResponseTimeArgs == {None, Some(30), Some(59), Some(60), Some(1439), Some(1440)}

ReferrerArgs == {None, Some("a1")}

ScoredLeadDatas ==
    { Restrict(d, keys) :
        d \in [budget_max : BudgetArgs, nationality : NationalityArgs,
               property_type : PropertyTypeArgs],
        keys \in SUBSET {"budget_max", "nationality", "property_type"} }

ScoredSourceDetails ==
    { Restrict(d, keys) :
        d \in [source_type : SourceTypeArgs, response_time_minutes : ResponseTimeArgs,
               referrer_agent_id : ReferrerArgs],
        keys \in SUBSET {"source_type", "response_time_minutes", "referrer_agent_id"} }

CalculateLeadScore ==
    /\ last.op = "call calculate_lead_score"
    /\ last' = [op |-> "calculate_lead_score", lead_data |-> last.lead_data,
                source_details |-> last.source_details,
                result |-> calculate_lead_score(last.lead_data, last.source_details)]
    /\ UNCHANGED <<leads, lead_assignments, follow_up_tasks, lead_activities, redis,
                   agent_performance_metrics, background_active, rr_cycle, requests>>

InitCalc ==
    /\ leads = <<>>
    /\ lead_assignments = <<>>
    /\ follow_up_tasks = <<>>
    /\ lead_activities = <<>>
    /\ redis = {}
    /\ agent_performance_metrics = Metrics0
    /\ background_active = [a \in AgentIds |-> 48]
    /\ rr_cycle = None
    /\ requests = <<>>
    /\ \E lead_data \in ScoredLeadDatas, source_details \in ScoredSourceDetails :
           last = [op |-> "call calculate_lead_score", lead_data |-> lead_data,
                   source_details |-> source_details]

SpecCalc == InitCalc /\ [][CalculateLeadScore]_vars

----------------------------------------------------------------------------
(* One LeadAssignmentManager kept for many find_best_agent calls on an     *)
(* unchanging database, every call with the same lead data                 *)

MetricsWeighted ==
    { [agent_id |-> "a1", date |-> 1, conversion_rate |-> Some(100)],
      [agent_id |-> "a1", date |-> 2, conversion_rate |-> Some(350)],
      [agent_id |-> "a2", date |-> 1, conversion_rate |-> Some(35)],
      [agent_id |-> "a3", date |-> 1, conversion_rate |-> None] }

MetricsEven ==
    { [agent_id |-> "a1", date |-> 1, conversion_rate |-> Some(299)],
      [agent_id |-> "a3", date |-> 1, conversion_rate |-> Some(200)] }

SelectorLeadDatas == LeadDatas \cup {<<>>}

InitSelector ==
    /\ leads = <<>>
    /\ lead_assignments = <<>>
    /\ follow_up_tasks = <<>>
    /\ lead_activities = <<>>
    /\ redis = {}
    /\ agent_performance_metrics \in {Metrics0, MetricsWeighted, MetricsEven}
    /\ background_active \in [AgentIds -> BackgroundLoads]
    /\ rr_cycle = None
    /\ requests = <<>>
    /\ \E lead_data \in SelectorLeadDatas :
           last = [op |-> "LeadAssignmentManager", lead_data |-> lead_data, calls |-> <<>>]

\* manager.find_best_agent(lead_data) on the manager's own _rr_cycle
FindBestAgent ==
    /\ Len(last.calls) < MaxCalls
    /\ LET r == find_best_agent(lead_assignments, leads, background_active,
                                agent_performance_metrics, last.lead_data, rr_cycle)
       IN  /\ rr_cycle' = r.cycle
           /\ last' = [op |-> "find_best_agent", lead_data |-> last.lead_data,
                       calls |-> Append(last.calls, r.result), eligible |-> r.eligible]
    /\ UNCHANGED <<leads, lead_assignments, follow_up_tasks, lead_activities, redis,
                   agent_performance_metrics, background_active, requests>>

SpecSelector == InitSelector /\ [][FindBestAgent]_vars

(* One LeadAssignmentManager kept for find_best_agent calls whose lead data *)
(* differ from call to call                                                *)

InitManager ==
    /\ leads = <<>>
    /\ lead_assignments = <<>>
    /\ follow_up_tasks = <<>>
    /\ lead_activities = <<>>
    /\ redis = {}
    /\ agent_performance_metrics \in {Metrics0, MetricsWeighted, MetricsEven}
    /\ background_active \in [AgentIds -> BackgroundLoads]
    /\ rr_cycle = None
    /\ requests = <<>>
    /\ last = [op |-> "LeadAssignmentManager"]

FindBestAgentFor ==
    \E lead_data \in SelectorLeadDatas :
        LET r == find_best_agent(lead_assignments, leads, background_active,
                                 agent_performance_metrics, lead_data, rr_cycle)
        IN  /\ rr_cycle' = r.cycle
            /\ last' = [op |-> "manager.find_best_agent", selection |-> selection_of(r)]
            /\ UNCHANGED <<leads, lead_assignments, follow_up_tasks, lead_activities,
                           redis, agent_performance_metrics, background_active,
                           requests>>

SpecManager == InitManager /\ [][FindBestAgentFor]_vars

----------------------------------------------------------------------------
(* Requests served concurrently.  Every request has its own AsyncSession,  *)
(* so its own transaction (PostgreSQL, READ COMMITTED) and its own         *)
(* LeadAssignmentManager.  A step is what a request does between two       *)
(* points where it waits for the database or the cache; the two workload   *)
(* queries of assign_lead and find_best_agent are taken as one step.  The  *)
(* tables hold committed rows; a request sees them with its own            *)
(* uncommitted UPDATE applied.  An UPDATE that meets a row locked by       *)
(* another transaction waits for all its rows, and when it resumes it      *)
(* re-checks the rows it had found, not the rows inserted meanwhile.       *)

MaxRequests == 2

InFlight(r) == r.pc \notin {"done", "failed"}

mark_reassigned(asg, rows) ==
    [i \in DOMAIN asg |->
        IF i \in rows THEN [asg[i] EXCEPT !.reassigned = TRUE] ELSE asg[i]]

\* the rows a session reads: committed rows and its own uncommitted update
session_view(asg, r) == mark_reassigned(asg, r.marked)

\* rows updated by the uncommitted transactions of the other requests
locked_by_others(i) ==
    UNION {requests[j].marked : j \in DOMAIN requests \ {i}}

\* the session closed with the UPDATE of the failed request made permanent
rollback_keeps_update(asg, r) == mark_reassigned(asg, r.marked)

\* async with async_session() as session: closing the session of a request
\* that raised discards what it has not committed
rollback(asg, r) == asg

\* a commit that writes the added row twice
commit_assignment_twice(asg, row) == Append(Append(asg, row), row)

\* db.add(new_assignment); await db.commit()
commit_assignment(asg, row) == Append(asg, row)

new_request(kind) ==
    [kind |-> kind, pc |-> "failed", lead_data |-> <<>>, lead_score |-> 0, lead_id |-> 0,
     target_agent_id |-> None, candidates |-> {}, marked |-> {}, selection |-> None,
     position |-> 0, agent |-> None, result |-> None]

failed(r, e) == [r EXCEPT !.pc = "failed", !.marked = {}, !.result = Some(Raise(e))]

\* capture_lead up to the flush of the new lead and the score
BeginCapture ==
    \E request \in CaptureRequests :
        LET lead_data == request.lead_data
            score == calculate_lead_score(lead_data, scoring_source_details(request))
            r     == [new_request("capture") EXCEPT !.lead_data = lead_data]
        IN  /\ Len(requests) < MaxRequests
            \* INSERT INTO leads waits for an uncommitted row with the same phone
            /\ \A j \in DOMAIN requests :
                   (requests[j].kind = "capture" /\ InFlight(requests[j]))
                   => requests[j].lead_data.phone # lead_data.phone
            /\ requests' = Append(requests,
                   IF cache_keys(lead_data) \cap redis # {}
                   THEN failed(r, "400 Duplicate lead detected (cache)")
                   ELSE IF duplicate_in_db(leads, lead_data)
                   THEN failed(r, "400 Duplicate lead detected (DB)")
                   ELSE IF score.raised # ""
                   THEN failed(r, score.raised)
                   ELSE [r EXCEPT !.pc = "assign_lead", !.lead_score = score.value])
            /\ UNCHANGED <<leads, lead_assignments, follow_up_tasks, lead_activities, redis,
                           agent_performance_metrics, background_active, rr_cycle, last>>

\* assignment_manager = LeadAssignmentManager(db); assign_lead(...)
CaptureAssign(i) ==
    LET r    == requests[i]
        info == assign_lead(session_view(lead_assignments, r), leads, background_active,
                            agent_performance_metrics, r.lead_data, None)
        cycle == use_cycle(None, build_weighted_pool(info.eligible,
                                                     agent_performance_metrics))
    IN  /\ r.kind = "capture" /\ r.pc = "assign_lead"
        /\ requests' = [requests EXCEPT ![i] =
               IF info.result = None
               THEN [failed(r, "400 No suitable agent available")
                        EXCEPT !.selection = selection_of(info)]
               ELSE [r EXCEPT !.pc = "commit", !.selection = selection_of(info),
                              !.position = cycle.pos, !.agent = info.result]]
        /\ lead_assignments' = (IF info.result = None
                                THEN rollback(lead_assignments, r) ELSE lead_assignments)
        /\ UNCHANGED <<leads, follow_up_tasks, lead_activities, redis,
                       agent_performance_metrics, background_active, rr_cycle, last>>

\* db.add(new_assignment); db.add(follow_up); await db.commit()
CaptureCommit(i) ==
    LET r       == requests[i]
        lead_id == Cardinality(DOMAIN leads) + 1
    IN  /\ r.kind = "capture" /\ r.pc = "commit"
        /\ leads' = [l \in DOMAIN leads \cup {lead_id} |->
                        IF l = lead_id THEN new_lead(r.lead_data, r.lead_score) ELSE leads[l]]
        /\ lead_assignments' =
               commit_assignment(lead_assignments,
                                 new_assignment(lead_id, r.agent[1], "initial assignment",
                                                utcnow(lead_assignments)))
        /\ follow_up_tasks' = Append(follow_up_tasks,
                                     [lead_id |-> lead_id, agent_id |-> r.agent[1],
                                      task_type |-> "call"])
        /\ requests' = [requests EXCEPT ![i] = [r EXCEPT !.pc = "cache", !.lead_id = lead_id]]
        /\ UNCHANGED <<lead_activities, redis, agent_performance_metrics,
                       background_active, rr_cycle, last>>

\* redis.set(key, ...) for the phone and the email
CaptureCache(i) ==
    LET r == requests[i]
    IN  /\ r.kind = "capture" /\ r.pc = "cache"
        /\ redis' = redis \cup cache_keys(r.lead_data)
        /\ requests' = [requests EXCEPT ![i] =
                           [r EXCEPT !.pc = "done", !.result = Some(Return(r.agent[1]))]]
        /\ UNCHANGED <<leads, lead_assignments, follow_up_tasks, lead_activities,
                       agent_performance_metrics, background_active, rr_cycle, last>>

\* UPDATE lead_assignments SET reassigned = TRUE WHERE lead_id = :lead_id
\*   AND reassigned = FALSE: the rows the statement finds
rows_to_supersede(asg, lead_id) ==
    {i \in DOMAIN asg : asg[i].lead_id = lead_id /\ asg[i].reassigned = FALSE}

\* reassign_lead, step 1: the UPDATE is issued
BeginReassign ==
    \E lead_id \in DOMAIN leads, target_agent_id \in {None} \cup Targets :
        LET candidates == rows_to_supersede(lead_assignments, lead_id)
            r == [new_request("reassign") EXCEPT !.lead_id = lead_id,
                                                  !.target_agent_id = target_agent_id,
                                                  !.candidates = candidates]
            i == Len(requests) + 1
        IN  /\ Len(requests) < MaxRequests
            /\ requests' = Append(requests,
                   IF candidates \cap locked_by_others(i) # {}
                   THEN [r EXCEPT !.pc = "update_waits"]
                   ELSE [r EXCEPT !.pc = "select_agent", !.marked = candidates])
            /\ UNCHANGED <<leads, lead_assignments, follow_up_tasks, lead_activities, redis,
                           agent_performance_metrics, background_active, rr_cycle, last>>

\* the UPDATE resumes when the transactions holding its rows have ended, and
\* updates the rows that still have reassigned = FALSE
ReassignResume(i) ==
    LET r == requests[i]
    IN  /\ r.kind = "reassign" /\ r.pc = "update_waits"
        /\ r.candidates \cap locked_by_others(i) = {}
        /\ requests' = [requests EXCEPT ![i] =
               [r EXCEPT !.pc = "select_agent",
                         !.marked = {c \in r.candidates :
                                        lead_assignments[c].reassigned = FALSE}]]
        /\ UNCHANGED <<leads, lead_assignments, follow_up_tasks, lead_activities, redis,
                       agent_performance_metrics, background_active, rr_cycle, last>>

\* reassign_lead, step 2: the target agent is selected, or assign_lead called
ReassignSelect(i) ==
    LET r    == requests[i]
        new_agent == select_target_agent(r.target_agent_id[1])
        info == assign_lead(session_view(lead_assignments, r), leads, background_active,
                            agent_performance_metrics, <<>>, None)
    IN  /\ r.kind = "reassign" /\ r.pc = "select_agent"
        /\ IF r.target_agent_id # None
           THEN IF new_agent # None
                THEN /\ requests' = [requests EXCEPT ![i] =
                                        [r EXCEPT !.pc = "commit", !.agent = new_agent]]
                     /\ lead_assignments' = lead_assignments
                ELSE /\ requests' = [requests EXCEPT ![i] = failed(r, "ValueError")]
                     /\ lead_assignments' = rollback(lead_assignments, r)
           ELSE IF info.result # None
                THEN /\ requests' = [requests EXCEPT ![i] =
                                        [r EXCEPT !.pc = "commit", !.agent = info.result,
                                                  !.selection = selection_of(info)]]
                     /\ lead_assignments' = lead_assignments
                ELSE /\ requests' = [requests EXCEPT ![i] =
                                        [failed(r, "ValueError")
                                            EXCEPT !.selection = selection_of(info)]]
                     /\ lead_assignments' = rollback(lead_assignments, r)
        /\ UNCHANGED <<leads, follow_up_tasks, lead_activities, redis,
                       agent_performance_metrics, background_active, rr_cycle, last>>

\* reassign_lead, step 3: self.db.add(new_assignment); await self.db.commit()
ReassignCommit(i) ==
    LET r == requests[i]
    IN  /\ r.kind = "reassign" /\ r.pc = "commit"
        /\ lead_assignments' =
               commit_assignment(mark_reassigned(lead_assignments, r.marked),
                                 new_assignment(r.lead_id, r.agent[1], "manual",
                                                utcnow(lead_assignments)))
        /\ requests' = [requests EXCEPT ![i] =
                           [r EXCEPT !.pc = "done", !.marked = {},
                                     !.result = Some(Return(r.agent[1]))]]
        /\ UNCHANGED <<leads, follow_up_tasks, lead_activities, redis,
                       agent_performance_metrics, background_active, rr_cycle, last>>

ConcurrentLoads == {49, 50}

\* one lead assigned to agent a1, open or already converted, and no agent
\* above the limit
InitConcurrent ==
    /\ background_active \in [AgentIds -> ConcurrentLoads]
    /\ \E status \in {"new", "converted"} :
           /\ leads = <<[seeded_lead(85) EXCEPT !.status = status]>>
           /\ status = "new" => background_active["a1"] < WorkloadLimit
    /\ lead_assignments = <<new_assignment(1, "a1", "initial assignment", utcnow(<<>>))>>
    /\ follow_up_tasks = <<[lead_id |-> 1, agent_id |-> "a1", task_type |-> "call"]>>
    /\ lead_activities = <<>>
    /\ redis = {}
    /\ agent_performance_metrics = Metrics0
    /\ rr_cycle = None
    /\ last = [op |-> "init"]
    /\ requests = <<>>

NextConcurrent ==
    \/ BeginCapture
    \/ BeginReassign
    \/ \E i \in DOMAIN requests : CaptureAssign(i)
    \/ \E i \in DOMAIN requests : CaptureCommit(i)
    \/ \E i \in DOMAIN requests : CaptureCache(i)
    \/ \E i \in DOMAIN requests : ReassignResume(i)
    \/ \E i \in DOMAIN requests : ReassignSelect(i)
    \/ \E i \in DOMAIN requests : ReassignCommit(i)

SpecConcurrent == InitConcurrent /\ [][NextConcurrent]_vars

----------------------------------------------------------------------------
(* crud/lead_assignment.py and LeadAssignmentManager.get_assigned_agent,   *)
(* called directly on the tables                                           *)

\* update(LeadAssignment).where(lead_id, agent_id == old_agent_id,
\*   reassigned == False).values(reassigned=True, reason, assigned_at)
crud_supersede(asg, lead_id, old_agent_id, reason, now) ==
    [i \in DOMAIN asg |->
        IF /\ asg[i].lead_id = lead_id
           /\ asg[i].agent_id = old_agent_id
           /\ asg[i].reassigned = FALSE
        THEN [asg[i] EXCEPT !.reassigned = TRUE, !.reason = reason, !.assigned_at = now]
        ELSE asg[i]]

\* crud reassign_lead(db, lead_id, old_agent_id, new_agent_id, reason)
crud_reassign_lead(asg, lead_id, old_agent_id, new_agent_id, reason) ==
    LET asg1 == crud_supersede(asg, lead_id, old_agent_id, reason, utcnow(asg))
    IN  Append(asg1, new_assignment(lead_id, new_agent_id, reason, utcnow(asg1)))

\* the rows of the lead, latest created_at first
rows_by_created_at_desc(asg, lead_id) ==
    LET rows == {i \in DOMAIN asg : asg[i].lead_id = lead_id}
        before(i, j) == \/ asg[i].created_at > asg[j].created_at
                        \/ asg[i].created_at = asg[j].created_at /\ i < j
        rank(i) == 1 + Cardinality({j \in rows : before(j, i)})
    IN  [k \in 1..Cardinality(rows) |-> asg[CHOOSE i \in rows : rank(i) = k]]

\* result.scalar_one_or_none()
scalar_one_or_none(rows) ==
    IF Len(rows) = 0 THEN Return(None)
    ELSE IF Len(rows) = 1 THEN Return(Some(rows[1].agent_id))
    ELSE Raise("MultipleResultsFound")

\* LeadAssignmentManager.get_assigned_agent(db, lead_id)
get_assigned_agent(asg, lead_id) ==
    scalar_one_or_none(rows_by_created_at_desc(asg, lead_id))

DefaultReason == "Reassigned"

CrudReassignLead ==
    \E lead_id \in DOMAIN leads, old_agent_id \in AgentIds, new_agent_id \in AgentIds :
        /\ Len(lead_assignments) < MaxAssignments
        /\ lead_assignments' =
               crud_reassign_lead(lead_assignments, lead_id, old_agent_id, new_agent_id,
                                  DefaultReason)
        /\ last' = [op |-> "crud.reassign_lead", lead_id |-> lead_id,
                    old_agent_id |-> old_agent_id, new_agent_id |-> new_agent_id,
                    result |-> Return(new_agent_id)]
        /\ UNCHANGED <<leads, follow_up_tasks, lead_activities, redis,
                       agent_performance_metrics, background_active, rr_cycle, requests>>

\* the ids of the leads in the table and one id that is not there
LeadIdArgs == 1..(MaxLeads + 1)

GetAssignedAgent ==
    \E lead_id \in LeadIdArgs :
        /\ last' = [op |-> "get_assigned_agent", lead_id |-> lead_id,
                    result |-> get_assigned_agent(lead_assignments, lead_id)]
        /\ UNCHANGED <<leads, lead_assignments, follow_up_tasks, lead_activities, redis,
                       agent_performance_metrics, background_active, rr_cycle, requests>>

NextCrud == CrudReassignLead \/ ReassignLead \/ GetAssignedAgent

SpecCrud == Init /\ [][NextCrud]_vars

----------------------------------------------------------------------------
(* Lead updates in flight at the same time: update_lead_score of each      *)
(* request in a session of its own                                         *)

ConcurrentActivityDatas ==
    { [type |-> Some("offer_made"), outcome |-> Some("positive")],
      [type |-> Some("viewing"), outcome |-> None],
      [type |-> Some("call"), outcome |-> Some("negative")] }

ConcurrentScores == {0, 3, 50, 80, 95}

\* the handler calls update_lead_score: score_delta is computed from the
\* activity before the current score is read
BeginUpdateScore ==
    \E lead_id \in DOMAIN leads, activity_data \in ConcurrentActivityDatas :
        /\ Len(requests) < MaxRequests
        /\ requests' = Append(requests,
               [kind |-> "update_lead_score", pc |-> "select", lead_id |-> lead_id,
                activity_data |-> activity_data, current |-> 0, result |-> None])
        /\ UNCHANGED <<leads, lead_assignments, follow_up_tasks, lead_activities, redis,
                       agent_performance_metrics, background_active, rr_cycle, last>>

\* select(Lead.lead_score).where(Lead.lead_id == lead_id): the committed score
SelectLeadScore(i) ==
    /\ requests[i].pc = "select"
    /\ requests' = [requests EXCEPT ![i].pc = "update",
                                    ![i].current = current_score(leads, requests[i].lead_id)]
    /\ UNCHANGED <<leads, lead_assignments, follow_up_tasks, lead_activities, redis,
                   agent_performance_metrics, background_active, rr_cycle, last>>

\* update(Lead).values(lead_score=new_score) and db.commit()
UpdateLeadScoreCommit(i) ==
    LET r         == requests[i]
        new_score == new_lead_score(r.current, r.activity_data)
    IN  /\ r.pc = "update"
        /\ leads' = set_lead_score(leads, r.lead_id, new_score)
        /\ requests' = [requests EXCEPT ![i].pc = "done",
                                        ![i].result = Some(Return(new_score))]
        /\ UNCHANGED <<lead_assignments, follow_up_tasks, lead_activities, redis,
                       agent_performance_metrics, background_active, rr_cycle, last>>

InitConcurrentScores ==
    /\ \E lead_score \in ConcurrentScores :
           /\ leads = <<seeded_lead(lead_score)>>
           /\ last = [op |-> "init", lead_score |-> lead_score]
    /\ lead_assignments = <<new_assignment(1, "a1", "initial assignment", utcnow(<<>>))>>
    /\ follow_up_tasks = <<[lead_id |-> 1, agent_id |-> "a1", task_type |-> "call"]>>
    /\ lead_activities = <<>>
    /\ redis = {}
    /\ agent_performance_metrics = Metrics0
    /\ background_active = [a \in AgentIds |-> 48]
    /\ rr_cycle = None
    /\ requests = <<>>

NextConcurrentScores ==
    \/ BeginUpdateScore
    \/ \E i \in DOMAIN requests : SelectLeadScore(i)
    \/ \E i \in DOMAIN requests : UpdateLeadScoreCommit(i)

SpecConcurrentScores == InitConcurrentScores /\ [][NextConcurrentScores]_vars

----------------------------------------------------------------------------
(* Updates of one captured lead, with the other agents at or under the     *)
(* limit; a converted lead no longer counts for the agent that holds it    *)

UpdatedScores == {60, 70, 85, 91, 95}

InitUpdates ==
    /\ background_active \in [AgentIds -> BackgroundLoads]
    /\ \E lead_score \in UpdatedScores, status \in {"new", "converted"} :
           /\ leads = <<[seeded_lead(lead_score) EXCEPT !.status = status]>>
           /\ status = "new" => background_active["a1"] < WorkloadLimit
    /\ lead_assignments = <<new_assignment(1, "a1", "initial assignment", utcnow(<<>>))>>
    /\ follow_up_tasks = <<[lead_id |-> 1, agent_id |-> "a1", task_type |-> "call"]>>
    /\ lead_activities = <<>>
    /\ redis = {}
    /\ agent_performance_metrics = Metrics0
    /\ rr_cycle = None
    /\ requests = <<>>
    /\ last = [op |-> "init"]

SpecUpdates == InitUpdates /\ [][UpdateLead]_vars

----------------------------------------------------------------------------
(* Properties *)

\* C1: in every state reached by captures and updates every stored lead
\* score is an integer of 0..100, and an update whose sum leaves that range
\* returns normally with the clamped score stored.
C1_ScoreAlwaysInRange ==
    /\ \A l \in DOMAIN leads : leads[l].lead_score \in 0..100
    /\ last.op = "update_lead_score"
       => LET sum == last.current + score_delta(last.activity_data)
          IN  sum \notin 0..100
              => /\ last.result.raised = ""
                 /\ leads[last.lead_id].lead_score = (IF sum < 0 THEN 0 ELSE 100)

C1_Witness ==
    /\ last.op = "update_lead_score"
    /\ last.current + score_delta(last.activity_data) < 0
    /\ last.result = Return(0)
    /\ leads[last.lead_id].lead_score = 0

\* the deltas of the scoring rules as the specification lists them
HasValue(d, k, v) == k \in DOMAIN d /\ d[k] = Some(v)

IsStale(d) ==
    /\ "last_activity_at" \in DOMAIN d
    /\ d.last_activity_at # None
    /\ Now - d.last_activity_at[1] > 7

ListedDelta(d) ==
    (IF HasValue(d, "outcome", "positive") THEN 5 ELSE 0)
    - (IF HasValue(d, "outcome", "negative") THEN 5 ELSE 0)
    + (IF HasValue(d, "type", "viewing") THEN 10 ELSE 0)
    + (IF HasValue(d, "type", "offer_made") THEN 20 ELSE 0)
    - (IF IsStale(d) THEN 10 ELSE 0)

Clamp(x, lo, hi) == IF x < lo THEN lo ELSE IF x > hi THEN hi ELSE x

\* C5: update_lead_score returns and stores clamp(s + d, 0, 100), d being
\* the sum of +5 positive, -5 negative, +10 viewing, +20 offer_made and -10
\* for a last activity more than 7 days old; 98 with +20 gives 100 and 3
\* with -15 gives 0.
C5_UpdateIsClampedSum ==
    last.op = "update_lead_score"
    => LET s == last.current
           d == ListedDelta(last.activity_data)
       IN  /\ last.result = Return(Clamp(s + d, 0, 100))
           /\ leads[last.lead_id].lead_score = Clamp(s + d, 0, 100)
           /\ (s = 98 /\ d = 20) => last.result.value = 100
           /\ (s = 3 /\ d = -15) => last.result.value = 0

C5_Witness ==
    /\ last.op = "update_lead_score"
    /\ last.current = 98
    /\ last.activity_data = [type |-> Some("offer_made")]
    /\ last.result = Return(100)
    /\ leads[last.lead_id].lead_score = 100

\* the six rules of the initial score as the specification lists them
ListedBudget(b) ==
    CASE b > 1500000 -> 15
      [] b > 1000000 /\ b <= 1500000 -> 8
      [] b < 500000 -> -5
      [] OTHER -> 0

ListedSourceWeight(name) ==
    CASE name = "bayut" -> 90
      [] name = "propertyFinder" -> 85
      [] name = "website" -> 80
      [] name = "dubizzle" -> 70
      [] name = "walk_in" -> 75
      [] name = "referral" -> 82
      [] OTHER -> 50

Given(d, k) == k \in DOMAIN d /\ d[k] # None

IsNull(d, k) == k \in DOMAIN d /\ d[k] = None

ListedScore(ld, sd) ==
    ListedBudget(IF "budget_max" \in DOMAIN ld THEN ld.budget_max[1] ELSE 0)
    + (IF Given(sd, "source_type") THEN ListedSourceWeight(sd.source_type[1]) ELSE 50) \div 10
    + (IF HasValue(ld, "nationality", "UAE") THEN 10
       ELSE IF Given(ld, "nationality")
               /\ ld.nationality[1] \in {"KSA", "Kuwait", "Oman", "Bahrain", "Qatar"}
       THEN 5 ELSE 0)
    + (IF HasValue(ld, "property_type", villa) THEN 5
       ELSE IF HasValue(ld, "property_type", apartment) THEN 3
       ELSE IF HasValue(ld, "property_type", commercial) THEN -3
       ELSE 0)
    + (IF ~Given(sd, "response_time_minutes") THEN 0
       ELSE IF sd.response_time_minutes[1] < 60 THEN 10
       ELSE IF sd.response_time_minutes[1] < 1440 THEN 5
       ELSE 0)
    + (IF Given(sd, "referrer_agent_id") THEN 5 ELSE 0)

ExampleLeadData ==
    [budget_max |-> Some(2000000), nationality |-> Some("UAE"), property_type |-> Some(villa)]

ExampleSourceDetails ==
    [source_type |-> Some("bayut"), response_time_minutes |-> Some(30),
     referrer_agent_id |-> Some("a1")]

\* C6: a score that calculate_lead_score returns is the clamped sum of the
\* six listed rules; a budget of exactly 1,500,000 scores +8 and one of
\* exactly 1,000,000 or 500,000 scores 0; the example profile scores 54.
C6_InitialScoreIsClampedSum ==
    (last.op = "calculate_lead_score" /\ ~IsNull(last.lead_data, "budget_max"))
    => LET ld == last.lead_data
           sd == last.source_details
           rest == ListedScore([ld EXCEPT !.budget_max = Some(600000)], sd)
       IN  /\ last.result = Return(Clamp(ListedScore(ld, sd), 0, 100))
           /\ HasValue(ld, "budget_max", 1500000)
              => last.result.value = Clamp(rest + 8, 0, 100)
           /\ (HasValue(ld, "budget_max", 1000000) \/ HasValue(ld, "budget_max", 500000))
              => last.result.value = Clamp(rest, 0, 100)
           /\ (ld = ExampleLeadData /\ sd = ExampleSourceDetails)
              => last.result.value = 54

C6_Witness ==
    /\ last.op = "calculate_lead_score"
    /\ last.lead_data = ExampleLeadData
    /\ last.source_details = ExampleSourceDetails
    /\ last.result = Return(54)

\* a profile as LeadData.dict() gives it: every field present, each a value
\* or null
SchemaProfile(ld) == DOMAIN ld = {"budget_max", "nationality", "property_type"}

\* C7: for every profile the capture schema accepts, null optional fields
\* included, calculate_lead_score completes and returns an integer of 0..100.
C7_ScoreOfEveryAcceptedProfile ==
    (last.op = "calculate_lead_score" /\ SchemaProfile(last.lead_data))
    => /\ last.result.raised = ""
       /\ last.result.value \in 0..100

ActiveRows(asg, lead_id) ==
    {i \in DOMAIN asg : asg[i].lead_id = lead_id /\ asg[i].reassigned = FALSE}

RowsOf(asg, lead_id) == {i \in DOMAIN asg : asg[i].lead_id = lead_id}

OneActiveAssignment ==
    \A l \in DOMAIN leads :
        RowsOf(lead_assignments, l) # {} => Cardinality(ActiveRows(lead_assignments, l)) = 1

\* a step in which reassign_lead succeeded, called directly or by the update
\* handler
ReassignSucceeded ==
    /\ last'.op \in {"reassign_lead", "update_lead"}
    /\ lead_assignments' # lead_assignments

ReassignPostCondition ==
    ReassignSucceeded
    => LET n == Len(lead_assignments')
       IN  /\ n = Len(lead_assignments) + 1
           /\ \A i \in ActiveRows(lead_assignments, last'.lead_id) :
                  lead_assignments'[i] = [lead_assignments[i] EXCEPT !.reassigned = TRUE]
           /\ lead_assignments'[n].lead_id = last'.lead_id
           /\ ActiveRows(lead_assignments', last'.lead_id) = {n}

\* C2: with capture, update and reassign_lead run one at a time, every lead
\* that has an assignment row has exactly one row with reassigned = FALSE, and
\* a successful reassign_lead marks the row that was active before and leaves
\* the row it creates as the single active one.
C2_ExactlyOneActiveAssignment ==
    []OneActiveAssignment /\ [][ReassignPostCondition]_vars

C2_Witness ==
    /\ last.op = "reassign_lead"
    /\ last.result = Return("a3")
    /\ \E i \in RowsOf(lead_assignments, last.lead_id) :
           /\ lead_assignments[i].reassigned = TRUE
           /\ lead_assignments[i].agent_id = "a1"
    /\ ActiveRows(lead_assignments, last.lead_id) = {Len(lead_assignments)}
    /\ lead_assignments[Len(lead_assignments)].agent_id = "a3"

ActiveLeads(agent_id) ==
    get_agent_workload(lead_assignments, leads, background_active, agent_id)

Selected == last.op \in {"capture_lead", "update_lead", "reassign_lead"} /\ last.selection # None

\* C4: automatic selection never returns an agent whose active-lead count is
\* 50 (or more), and returns the agent at 49 when it is the only agent under
\* the ceiling.
C4_CeilingOfAutomaticSelection ==
    Selected
    => LET sel == last.selection[1]
       IN  /\ sel.result # None => sel.loads[sel.result[1]] < 50
           /\ \A a \in AgentIds :
                  (sel.loads[a] = 49 /\ \A b \in AgentIds \ {a} : sel.loads[b] >= 50)
                  => sel.result = Some(a)

C4_Witness ==
    /\ last.op = "capture_lead"
    /\ last.selection # None
    /\ last.selection[1].loads = [a1 |-> 49, a2 |-> 50, a3 |-> 50]
    /\ last.result = Return("a1")
    /\ ActiveLeads("a1") = 50

\* the entries of a comma-separated specialization
Items(s) ==
    {SubSeq(s, ij[1], ij[2]) : ij \in
        {ij \in (DOMAIN s) \X (DOMAIN s) :
            /\ ij[1] <= ij[2]
            /\ \A k \in ij[1]..ij[2] : s[k] # ","
            /\ (ij[1] = 1 \/ s[ij[1] - 1] = ",")
            /\ (ij[2] = Len(s) \/ s[ij[2] + 1] = ",")}}

Specialization(a) ==
    IF agent_row(a).specialization = None THEN {} ELSE Items(agent_row(a).specialization[1])

\* one step of the narrowing: skipped when the attribute is not specified,
\* reverting when it would leave no agent
Narrow(S, specified, kept) ==
    IF ~specified \/ S \cap kept = {} THEN S ELSE S \cap kept

ListedEligible(sel) ==
    LET ld     == sel.lead_data
        pool   == {a \in AgentIds : sel.loads[a] < 50}
        ptype  == Get(ld, "property_type", None)
        areas  == Get(ld, "preferred_areas", None)
        lang   == Get(ld, "language_preference", None)
        byType == Narrow(pool, ptype # None,
                         {a \in AgentIds : ptype[1] \in Specialization(a)})
        byArea == Narrow(byType, areas # None /\ areas # Some(<<>>),
                         {a \in AgentIds : Range(areas[1]) \cap Specialization(a) # {}})
    IN  Narrow(byArea, lang # None,
               {a \in AgentIds : agent_row(a).language = lang})

\* C8: the agents assign_lead selects from are the under-capacity pool
\* narrowed by property type, then preferred areas, then language, each step
\* skipped when the lead does not specify the attribute and reverted when it
\* would leave no agent.
C8_EligibleIsProgressiveNarrowing ==
    Selected => Range(last.selection[1].eligible) = ListedEligible(last.selection[1])

CycleLength(eligible) == Len(build_weighted_pool(eligible, agent_performance_metrics))

\* C10: when consecutive captures see the same eligible set of two or more
\* agents, every eligible agent is assigned a lead within one cycle length of
\* captures; stated for the sets whose cycle length is two.
C10_NoStarvationAcrossCaptures ==
    (/\ last.op = "capture_lead"
     /\ last.result.raised = ""
     /\ last.previous # None
     /\ last.previous[1].eligible = last.selection[1].eligible
     /\ Len(last.selection[1].eligible) >= 2
     /\ CycleLength(last.selection[1].eligible) = 2)
    => Range(last.selection[1].eligible)
           \subseteq {last.previous[1].result[1], last.selection[1].result[1]}

\* max(1, floor(weight)) of the agent's latest metric, 1 when it has none
ListedWeight(a) ==
    LET mine == {m \in agent_performance_metrics : m.agent_id = a}
        latest == CHOOSE m \in mine : \A o \in mine : o.date <= m.date
    IN  IF mine = {} \/ latest.conversion_rate = None THEN 1
        ELSE IF latest.conversion_rate[1] < 100 THEN 1
        ELSE latest.conversion_rate[1] \div 100

RECURSIVE WeightUpTo(_, _)
WeightUpTo(eligible, n) ==
    IF n = 0 THEN 0 ELSE WeightUpTo(eligible, n - 1) + ListedWeight(eligible[n])

\* element p (counted from 0) of the sequence that repeats each eligible
\* agent by its weight
ListedElement(eligible, p) ==
    eligible[CHOOSE i \in DOMAIN eligible :
                 WeightUpTo(eligible, i - 1) <= p /\ p < WeightUpTo(eligible, i)]

TimesSelected(calls, a, from, to) == Cardinality({k \in from..to : calls[k] = Some(a)})

WeightsThreeAndOne ==
    /\ last.eligible = <<"a1", "a2">>
    /\ ListedWeight("a1") = 3
    /\ ListedWeight("a2") = 1

\* C9: on one selector with a fixed eligible set and fixed weights, call k
\* (counted from 0) returns element k mod L of the weighted sequence; every
\* L consecutive calls select each agent as often as its weight; with
\* weights 3 and 1, forty calls select 30 and 10 times and every five
\* consecutive calls select both agents.
C9_WeightedRoundRobin ==
    (last.op = "find_best_agent" /\ last.eligible # <<>>)
    => LET calls == last.calls
           e == last.eligible
           L == WeightUpTo(e, Len(e))
       IN  /\ \A k \in DOMAIN calls : calls[k] = Some(ListedElement(e, (k - 1) % L))
           /\ \A k \in 1..(Len(calls) - L + 1) : \A a \in Range(e) :
                  TimesSelected(calls, a, k, k + L - 1) = ListedWeight(a)
           /\ (WeightsThreeAndOne /\ Len(calls) = 40)
              => /\ TimesSelected(calls, "a1", 1, 40) = 30
                 /\ TimesSelected(calls, "a2", 1, 40) = 10
                 /\ \A k \in 1..36 : \A a \in {"a1", "a2"} :
                        TimesSelected(calls, a, k, k + 4) >= 1

C9_Witness ==
    /\ last.op = "find_best_agent"
    /\ WeightsThreeAndOne
    /\ Len(last.calls) = 40
    /\ TimesSelected(last.calls, "a1", 1, 40) = 30
    /\ TimesSelected(last.calls, "a2", 1, 40) = 10

\* C11: on one LeadAssignmentManager the agent a find_best_agent call returns
\* is a member of the eligible set computed in that same call, the cycle
\* being rebuilt whenever that set differs from the one it was built from.
C11_ChosenIsEligibleInSameCall ==
    (last.op = "manager.find_best_agent" /\ last.selection[1].result # None)
    => last.selection[1].result[1] \in Range(last.selection[1].eligible)

\* the active leads of an agent as the specification counts them
ListedActive(asg, lds, a) ==
    background_active[a]
    + Cardinality({i \in DOMAIN asg :
                      /\ asg[i].agent_id = a
                      /\ ~asg[i].reassigned
                      /\ lds[asg[i].lead_id].status # "converted"
                      /\ lds[asg[i].lead_id].status # "lost"})

NoSuitableAgent(l) ==
    l.op = "capture_lead" /\ l.result = Raise("400 No suitable agent available")

CaptureFindsNoAgent ==
    (last.op = "capture_lead" /\ last.selection # None)
    => LET sel == last.selection[1]
       IN  /\ NoSuitableAgent(last) <=> \A a \in AgentIds : sel.loads[a] >= 50
           /\ NoSuitableAgent(last)
              => /\ \A a \in AgentIds : ListedActive(lead_assignments, leads, a) >= 50
                 /\ <<"lead:phone", sel.lead_data.phone>> \notin redis
                 /\ \A l \in DOMAIN leads : leads[l].phone # sel.lead_data.phone
                 /\ sel.lead_data.email # None
                    => /\ <<"lead:email", sel.lead_data.email[1]>> \notin redis
                       /\ \A l \in DOMAIN leads : leads[l].email # sel.lead_data.email

CaptureFailureWritesNothing ==
    NoSuitableAgent(last')
    => UNCHANGED <<leads, lead_assignments, follow_up_tasks, lead_activities, redis>>

\* C16: a capture fails with the no-suitable-agent error exactly when every
\* agent has 50 or more active leads, and then nothing is persisted: no lead,
\* assignment, follow-up task or cache entry, so the same phone or email is
\* not a duplicate afterwards.
C16_FailedCaptureLeavesNoTrace ==
    []CaptureFindsNoAgent /\ [][CaptureFailureWritesNothing]_vars

C16_Witness ==
    /\ NoSuitableAgent(last)
    /\ \A a \in AgentIds : last.selection[1].loads[a] >= 50
    /\ redis = {}

ScoreComputed(l) == l.op = "update_lead" /\ l.result.raised # "IntegrityError"

HighPotentialReason == "High potential lead (score > 90)"

UpdateReassignsAbove90 ==
    ScoreComputed(last')
    => LET score == leads'[last'.lead_id].lead_score
       IN  /\ last'.selection # None <=> score > 90
           /\ last'.selection # None => last'.selection[1].lead_data = <<>>
           /\ lead_assignments' # lead_assignments
              => /\ score > 90
                 /\ lead_assignments'[Len(lead_assignments')].reason = HighPotentialReason
                 /\ lead_assignments'[Len(lead_assignments')].lead_id = last'.lead_id
           /\ (score > 90 /\ last'.result.raised = "")
              => Len(lead_assignments') = Len(lead_assignments) + 1

\* C17: an update calls reassign_lead without a target, with the
\* high-potential reason, if and only if the score it computed is greater
\* than 90; at 90 or lower the assignment rows and their flags are unchanged.
C17_ReassignIffScoreAbove90 == [][UpdateReassignsAbove90]_vars

C17_Witness ==
    /\ last.op = "update_lead"
    /\ leads[last.lead_id].lead_score = 91
    /\ last.selection # None
    /\ Len(lead_assignments) = 2
    /\ lead_assignments[2].reason = HighPotentialReason
    /\ lead_assignments[1].reassigned

ManualReassign(l) == l.op = "reassign_lead" /\ l.target_agent_id # None

ListedAgents == {"a1", "a2", "a3"}

ManualTargetIsAssigned ==
    ManualReassign(last)
    => LET target == last.target_agent_id[1]
           n == Len(lead_assignments)
       IN  IF target \in ListedAgents
           THEN /\ last.result = Return(target)
                /\ lead_assignments[n].lead_id = last.lead_id
                /\ lead_assignments[n].agent_id = target
                /\ ActiveRows(lead_assignments, last.lead_id) = {n}
           ELSE last.result = Raise("ValueError")

UnknownTargetCreatesNoRow ==
    (ManualReassign(last') /\ last'.target_agent_id[1] \notin ListedAgents)
    => lead_assignments' = lead_assignments

\* C18: reassign_lead with a target agent that exists assigns the lead to that
\* agent whatever the agent's load, specialization or language and returns
\* it; with a target that does not exist it fails and creates no row.
C18_ManualTargetOverrides ==
    []ManualTargetIsAssigned /\ [][UnknownTargetCreatesNoRow]_vars

C18_Witness ==
    /\ last.op = "reassign_lead"
    /\ last.target_agent_id = Some("a3")
    /\ last.result = Return("a3")
    /\ background_active["a3"] = 50
    /\ ListedActive(lead_assignments, leads, "a3") = 51
    /\ lead_assignments[Len(lead_assignments)].agent_id = "a3"

AutomaticReassign(l) ==
    /\ l.op \in {"update_lead", "reassign_lead"}
    /\ l.selection # None

\* C19: the agent an automatic reassignment chooses belongs to the eligible
\* set obtained by filtering the under-capacity pool with the lead's own
\* property type, preferred areas and language preference.
C19_AutomaticReassignUsesLeadProfile ==
    (AutomaticReassign(last) /\ last.selection[1].result # None)
    => LET sel  == last.selection[1]
           rows == SelectSeq(agents, LAMBDA a : sel.loads[a.agent_id] < 50)
           pool == [i \in DOMAIN rows |-> rows[i].agent_id]
       IN  sel.result[1] \in Range(eligible_agents(pool, leads[last.lead_id]))

Holder(l) == lead_assignments[CHOOSE i \in ActiveRows(lead_assignments, l) : TRUE].agent_id

LoweredByOne(after, before, agent_id) ==
    \A a \in AgentIds : after[a] = before[a] - (IF a = agent_id THEN 1 ELSE 0)

\* C20: the workload of an agent, and the count the capacity filter uses,
\* is the number of its rows with reassigned = FALSE whose lead is neither
\* converted nor lost; converting or losing a lead, or superseding its
\* assignment, lowers the holder's workload by one and no other workload.
C20_WorkloadIsActiveCount ==
    LET counted == [a \in AgentIds |->
                       get_agent_workload(lead_assignments, leads, background_active, a)]
    IN  /\ \A a \in AgentIds :
            /\ counted[a] = ListedActive(lead_assignments, leads, a)
            /\ workload_subq(lead_assignments, leads, background_active, a) = counted[a]
        /\ Range(agents_under_limit(lead_assignments, leads, background_active))
               = {a \in AgentIds : ListedActive(lead_assignments, leads, a) < 50}
        /\ \A l \in DOMAIN leads :
               (/\ leads[l].status \notin {"converted", "lost"}
                /\ ActiveRows(lead_assignments, l) # {})
               => /\ \A status \in {"converted", "lost"} :
                         LoweredByOne([a \in AgentIds |->
                                          get_agent_workload(lead_assignments,
                                                             set_status(leads, l, status),
                                                             background_active, a)],
                                      counted, Holder(l))
                  /\ LoweredByOne([a \in AgentIds |->
                                      get_agent_workload(supersede(lead_assignments, l),
                                                         leads, background_active, a)],
                                  counted, Holder(l))

C20_Witness ==
    /\ last.op = "update_lead"
    /\ leads[last.lead_id].status = "converted"
    /\ ActiveRows(lead_assignments, last.lead_id) # {}
    /\ get_agent_workload(lead_assignments, leads, background_active, Holder(last.lead_id))
           = background_active[Holder(last.lead_id)]
    /\ \E l \in DOMAIN leads : leads[l].status = "new" /\ Holder(l) # Holder(last.lead_id)

Selecting == {i \in DOMAIN requests : requests[i].kind = "capture" /\ requests[i].pc = "commit"}

\* C12: two capture requests in flight at once, selecting from the same
\* eligible set, never take the element at the same position of the
\* round-robin cycle.
C12_ConcurrentCallsTakeDistinctPositions ==
    \A i \in Selecting, j \in Selecting :
        (i # j /\ requests[i].selection[1].eligible = requests[j].selection[1].eligible)
        => requests[i].position # requests[j].position

\* C13: with reassign_lead calls for the same lead running concurrently in
\* separate transactions, the lead has at most one committed assignment row
\* with reassigned = FALSE.
C13_AtMostOneActiveUnderConcurrency ==
    \A l \in DOMAIN leads : Cardinality(ActiveRows(lead_assignments, l)) <= 1

OnlyCaptures == \A i \in DOMAIN requests : requests[i].kind = "capture"

\* the active leads an agent had before the requests
InitialActive(a) == ListedActive(SubSeq(lead_assignments, 1, 1), leads, a)

ReassignFailed(r) == r.kind = "reassign" /\ r.pc = "failed"

SomeActiveRow ==
    \A l \in DOMAIN leads :
        RowsOf(lead_assignments, l) # {} => ActiveRows(lead_assignments, l) # {}

FailedReassignCommitsNothing ==
    \A i \in DOMAIN requests :
        (ReassignFailed(requests'[i]) /\ ~ReassignFailed(requests[i]))
        => /\ lead_assignments' = lead_assignments
           /\ requests[i].marked \subseteq ActiveRows(lead_assignments', requests[i].lead_id)

\* C15: a reassign_lead that fails after marking the current assignment
\* commits no change to the assignments, the rows it had marked are still
\* the active ones, and no committed state shows a lead that has assignment
\* rows with none of them active.
C15_FailedReassignIsAtomic ==
    []SomeActiveRow /\ [][FailedReassignCommitsNothing]_vars

C15_Witness ==
    \E i \in DOMAIN requests :
        /\ ReassignFailed(requests[i])
        /\ requests[i].target_agent_id = None
        /\ requests[i].selection # None
        /\ requests[i].candidates # {}
        /\ ActiveRows(lead_assignments, requests[i].lead_id) = requests[i].candidates

RowOnlySuperseded(before, after) ==
    /\ after.lead_id = before.lead_id
    /\ after.agent_id = before.agent_id
    /\ after.reason = before.reason
    /\ after.assigned_at = before.assigned_at
    /\ before.reassigned => after.reassigned

ExistingRowsKept ==
    \A i \in DOMAIN lead_assignments :
        /\ i \in DOMAIN lead_assignments'
        /\ RowOnlySuperseded(lead_assignments[i], lead_assignments'[i])

\* C21: no reassignment operation (the service reassign_lead, the CRUD
\* reassign_lead) changes the lead, agent, reason or assignment time of an
\* existing assignment row; the reassigned flag only goes from FALSE to TRUE.
C21_AssignmentRowsAreImmutable == [][ExistingRowsKept]_vars

LatestCreated(asg, lead_id) ==
    CHOOSE i \in RowsOf(asg, lead_id) :
        \A j \in RowsOf(asg, lead_id) : asg[j].created_at <= asg[i].created_at

CurrentAgent(asg, lead_id) ==
    IF RowsOf(asg, lead_id) = {} THEN None
    ELSE Some(asg[LatestCreated(asg, lead_id)].agent_id)

\* C23: get_assigned_agent returns, for a lead with no, one or several
\* assignment rows, the agent of the most recently created row (None without
\* rows); it never fails and never returns a superseded row's agent.
C23_GetAssignedAgentReturnsCurrent ==
    last.op = "get_assigned_agent"
    => /\ last.result = Return(CurrentAgent(lead_assignments, last.lead_id))
       /\ \A i \in RowsOf(lead_assignments, last.lead_id) :
              (last.result.value = Some(lead_assignments[i].agent_id)
               /\ lead_assignments[i].reassigned)
              => \E j \in ActiveRows(lead_assignments, last.lead_id) :
                     lead_assignments[j].agent_id = lead_assignments[i].agent_id

\* C24: after the CRUD reassign_lead, for every old_agent_id, the lead has
\* exactly one assignment row with reassigned = FALSE.
C24_CrudReassignLeavesOneActive ==
    last.op = "crud.reassign_lead"
    => Cardinality(ActiveRows(lead_assignments, last.lead_id)) = 1

BothUpdatesDone ==
    /\ Len(requests) = 2
    /\ \A i \in DOMAIN requests :
           requests[i].kind = "update_lead_score" /\ requests[i].pc = "done"

AppliedInOrder(first, second) ==
    Clamp(Clamp(last.lead_score + score_delta(requests[first].activity_data), 0, 100)
          + score_delta(requests[second].activity_data), 0, 100)

\* C22: after two concurrent score updates of one lead the persisted score
\* is the result of applying the two updates one after the other in some
\* order, each as clamp(current + delta, 0, 100).
C22_ConcurrentScoreUpdatesSerialize ==
    BothUpdatesDone
    => leads[1].lead_score \in {AppliedInOrder(1, 2), AppliedInOrder(2, 1)}

SomeAgentUnderLimit(sel) == \E a \in AgentIds : sel.loads[a] < WorkloadLimit

\* C25: an automatic selection returns an agent exactly when some agent has
\* fewer than 50 active leads; then the eligible list is not empty and the
\* weighted pool built from it holds every eligible agent at least once.
C25_SelectionSucceedsIffCapacity ==
    Selected
    => LET sel  == last.selection[1]
           pool == build_weighted_pool(sel.eligible, agent_performance_metrics)
       IN  /\ sel.result # None <=> SomeAgentUnderLimit(sel)
           /\ sel.result # None
              => /\ sel.eligible # <<>>
                 /\ \A a \in Range(sel.eligible) : \E k \in DOMAIN pool : pool[k] = a

\* a lead whose property type no agent has is still assigned, with one agent
\* under the limit
C25_Witness ==
    /\ last.op = "capture_lead"
    /\ last.selection # None
    /\ last.selection[1].lead_data.property_type = Some(townhouse)
    /\ \A a \in AgentIds : ~matches_property_type(a, townhouse)
    /\ Cardinality({a \in AgentIds : last.selection[1].loads[a] < WorkloadLimit}) = 1
    /\ last.selection[1].result # None
    /\ last.result.raised = ""

CaptureSucceeds ==
    /\ last'.op = "capture_lead"
    /\ last'.result.raised = ""
    /\ Cardinality(DOMAIN leads') > Cardinality(DOMAIN leads)

CapturedFrom(row, request) ==
    /\ \A k \in DOMAIN request.lead_data : row[k] = request.lead_data[k]
    /\ row.status = "new"
    /\ row.lead_score =
           calculate_lead_score(request.lead_data, scoring_source_details(request)).value

OneOfEachCommitted ==
    LET lead_id    == Cardinality(DOMAIN leads) + 1
        assignment == lead_assignments'[Len(lead_assignments')]
        follow_up  == follow_up_tasks'[Len(follow_up_tasks')]
    IN  /\ DOMAIN leads' = DOMAIN leads \cup {lead_id}
        /\ \A l \in DOMAIN leads : leads'[l] = leads[l]
        /\ \E request \in CaptureRequests : CapturedFrom(leads'[lead_id], request)
        /\ Len(lead_assignments') = Len(lead_assignments) + 1
        /\ SubSeq(lead_assignments', 1, Len(lead_assignments)) = lead_assignments
        /\ assignment.lead_id = lead_id
        /\ assignment.reassigned = FALSE
        /\ assignment.reason = "initial assignment"
        /\ Len(follow_up_tasks') = Len(follow_up_tasks) + 1
        /\ SubSeq(follow_up_tasks', 1, Len(follow_up_tasks)) = follow_up_tasks
        /\ follow_up.lead_id = lead_id
        /\ follow_up.agent_id = assignment.agent_id
        /\ last'.result = Return(assignment.agent_id)
        /\ last'.lead_id = lead_id

\* C26: a successful capture commits exactly one lead (status new, score the
\* computed initial score), one assignment row for it (not reassigned,
\* reason "initial assignment") and one follow-up task, and the assignment,
\* the follow-up task and the response name the same agent.
C26_CaptureCommitsOneOfEach == [][CaptureSucceeds => OneOfEachCommitted]_vars

C26_Witness ==
    /\ last.op = "capture_lead"
    /\ last.result.raised = ""
    /\ last.lead_id = 2
    /\ leads[2].lead_score > 0
    /\ Cardinality(ActiveRows(lead_assignments, 2)) = 1
    /\ \E i \in DOMAIN follow_up_tasks :
           follow_up_tasks[i].lead_id = 2 /\ Return(follow_up_tasks[i].agent_id) = last.result

ScoreReturned == last.op = "calculate_lead_score" /\ last.result.raised = ""

\* C27: whenever calculate_lead_score returns, the sum before the clamp lies
\* between -3 and 54 and the returned score between 0 and 54: it is the sum
\* itself unless the sum is negative, and then 0.
C27_InitialScoreRange ==
    ScoreReturned
    => LET sum == raw_lead_score(last.lead_data, last.source_details)
       IN  /\ sum \in (0 - 3)..54
           /\ last.result.value \in 0..54
           /\ last.result.value = (IF sum < 0 THEN 0 ELSE sum)

\* the least sum, raised to 0 by the lower clamp
C27_Witness ==
    /\ ScoreReturned
    /\ raw_lead_score(last.lead_data, last.source_details) = 0 - 3
    /\ last.result = Return(0)

ScoreUpdated == last.op = "update_lead_score"

TypeBonus(d) ==
    score_delta(d)
    - (IF HasValue(d, "outcome", "positive") THEN 5
       ELSE IF HasValue(d, "outcome", "negative") THEN 0 - 5 ELSE 0)
    - (IF IsStale(d) THEN 0 - 10 ELSE 0)

DeltaInRange ==
    ScoreUpdated
    => /\ score_delta(last.activity_data) \in (0 - 15)..25
       /\ TypeBonus(last.activity_data) \in {0, 10, 20}
       /\ TypeBonus(last.activity_data) = 20 <=> HasValue(last.activity_data, "type", "offer_made")
       /\ TypeBonus(last.activity_data) = 10 <=> HasValue(last.activity_data, "type", "viewing")

NothingToApply(d) == "type" \notin DOMAIN d /\ "outcome" \notin DOMAIN d /\ ~IsStale(d)

EmptyUpdateKeepsScore ==
    (last'.op = "update_lead_score" /\ last' # last /\ NothingToApply(last'.activity_data))
    => /\ leads' = leads
       /\ last'.result = Return(leads[last'.lead_id].lead_score)

\* C28: the score delta of every activity passed to update_lead_score lies
\* between -15 and +25; the type contributes +10 (viewing) or +20
\* (offer_made), never both; an update with no activity and no stale
\* last-activity timestamp leaves the score as it was.
C28_DeltaRange == []DeltaInRange /\ [][EmptyUpdateKeepsScore]_vars

C28_Witness ==
    /\ ScoreUpdated
    /\ score_delta(last.activity_data) = 25
    /\ last.current = 50
    /\ last.result = Return(75)

HighPotentialUpdate ==
    /\ last'.op = "update_lead"
    /\ last'.result.raised = ""
    /\ last'.result.value > 90

SupersededAndOneAdded ==
    LET l == last'.lead_id
        n == Len(lead_assignments)
    IN  /\ Len(lead_assignments') = n + 1
        /\ \A i \in 1..n :
               lead_assignments'[i] =
                   IF lead_assignments[i].lead_id = l /\ ~lead_assignments[i].reassigned
                   THEN [lead_assignments[i] EXCEPT !.reassigned = TRUE]
                   ELSE lead_assignments[i]
        /\ lead_assignments'[n + 1].lead_id = l
        /\ lead_assignments'[n + 1].reason = HighPotentialReason
        /\ lead_assignments'[n + 1].agent_id \in ListedAgents
        /\ ActiveRows(lead_assignments', l) = {n + 1}
        /\ leads'[l].lead_score = last'.result.value

HighPotentialRows(l) ==
    {i \in RowsOf(lead_assignments, l) : lead_assignments[i].reason = HighPotentialReason}

OneRowPerHighPotentialUpdate ==
    \A l \in DOMAIN leads :
        Cardinality(RowsOf(lead_assignments, l)) = 1 + Cardinality(HighPotentialRows(l))

ReassignFailsInUpdate == last'.op = "update_lead" /\ last'.result.raised = "ValueError"

WrittenBy(request, l) ==
    LET holder == lead_assignments[CHOOSE i \in ActiveRows(lead_assignments, l) : TRUE]
        delta  == IF request.activity = None THEN 0 ELSE ListedDelta(request.activity[1])
    IN  /\ leads'[l].status = (IF request.status = None THEN leads[l].status
                               ELSE request.status[1])
        /\ leads'[l].lead_score = Clamp(leads[l].lead_score + delta, 0, 100)
        /\ lead_activities' =
               (IF request.activity = None THEN lead_activities
                ELSE Append(lead_activities,
                            [lead_id |-> l, agent_id |-> holder.agent_id,
                             activity_type |-> request.activity[1].type[1],
                             outcome |-> request.activity[1].outcome]))

EarlierWritesStay ==
    LET l == last'.lead_id
    IN  /\ lead_assignments' = lead_assignments
        /\ leads'[l].lead_score > 90
        /\ \A a \in AgentIds : last'.selection[1].loads[a] >= 50
        /\ \E request \in UpdateRequests : WrittenBy(request, l)

\* C30: when the automatic reassignment of an update fails because no agent
\* is under capacity, the request ends in an error, the score above 90, the
\* status change and the activity of the request stay committed, and the
\* lead's assignments are as they were before the request.
C30_FailedReassignKeepsScore == [][ReassignFailsInUpdate => EarlierWritesStay]_vars

C30_Witness ==
    /\ last.op = "update_lead"
    /\ last.result.raised = "ValueError"
    /\ leads[1].lead_score = 100
    /\ leads[1].status = "converted"
    /\ Len(lead_activities) = 1
    /\ lead_assignments = <<new_assignment(1, "a1", "initial assignment", 1)>>

====
